---- MODULE Spec2Model ----
(***************************************************************************)
(* Model of ComputeSales/compute_sales.py: load two JSON files, index the  *)
(* price catalogue, aggregate the sales, print and save the report.        *)
(*                                                                         *)
(* JSON numbers are modelled by Python ints (and bools, which Python       *)
(* counts as ints); floats with a fractional part, NaN and Infinity are    *)
(* outside the model.                                                      *)
(***************************************************************************)
EXTENDS Integers, Sequences, FiniteSets, TLC

VARIABLES
    argc,             \* len(sys.argv)
    pc,               \* position of main()
    catFile,          \* what the file system holds at sys.argv[1], once read
    salesFile,        \* what the file system holds at sys.argv[2], once read
    price_catalogue,  \* main's local, the loaded catalogue
    sales_record,     \* main's local, the loaded sales
    idx,              \* position of the for loop of compute_total_sales
    price_catalogue_dict, \* compute_total_sales' local, the last index built
    total_cost,       \* compute_total_sales' accumulator, then main's local
    elapsed_time,     \* main's local, in hundredths of a second
    console,          \* the lines printed so far
    outFile,          \* the content of SalesResults.txt
    exitStatus,       \* the exit status of the process, once it has ended
    raised            \* the exception that ended the process, if any

vars == <<argc, pc, catFile, salesFile, price_catalogue, sales_record, idx,
          price_catalogue_dict, total_cost, elapsed_time, console, outFile,
          exitStatus, raised>>

----------------------------------------------------------------------------
(* Bounds *)

MaxCat == 2      \* longest catalogue sequence explored
MaxSales == 2    \* longest sales sequence explored
MaxArgc == 4     \* largest len(sys.argv) explored

----------------------------------------------------------------------------
(* JSON / Python values *)

None == [t |-> "none"]
PyInt(n) == [t |-> "int", n |-> n]
PyBool(b) == [t |-> "bool", b |-> b]
PyStr(s) == [t |-> "str", s |-> s]
PyList(items) == [t |-> "list", items |-> items]
PyDict(m) == [t |-> "dict", m |-> m]

EmptyDict == PyDict(<<>>)
Unset == [t |-> "unset"]
NoException == "none"

\* isinstance(v, str)
IsStr(v) == v.t = "str"

\* isinstance(v, (int, float)); bool is a subclass of int
IsNumber(v) == v.t \in {"int", "bool"}

\* the number Python computes with for a numeric value
NumVal(v) == IF v.t = "bool" THEN (IF v.b THEN 1 ELSE 0) ELSE v.n

\* a truthiness test in place of the type test: an empty list is refused
IsNonEmptyList(v) == v.t = "list" /\ v.items # <<>>

\* isinstance(v, list)
IsList(v) == v.t = "list"

\* has a .get method (a mapping)
HasGet(v) == v.t = "dict"

\* hash(v) raises TypeError
Unhashable(v) == v.t \in {"list", "dict"}

\* item.get(key)
Get(item, key) == IF key \in DOMAIN item.m THEN item.m[key] ELSE None

----------------------------------------------------------------------------
(* The inputs explored *)

CatElems ==
    { PyDict([title |-> PyStr("A"), price |-> PyInt(10)]),
      PyDict([title |-> PyStr("A"), price |-> PyInt(1234)]),
      PyDict([title |-> PyStr("B"), price |-> PyInt(-3)]),
      PyDict([title |-> PyStr("A"), price |-> PyStr("x")]),
      PyDict([price |-> PyInt(5)]),
      PyInt(7) }

SaleElems ==
    { PyDict([Product |-> PyStr("A"), Quantity |-> PyInt(2)]),
      PyDict([Product |-> PyStr("B"), Quantity |-> PyInt(1)]),
      PyDict([Product |-> PyStr("A"), Quantity |-> PyInt(-1)]),
      PyDict([Product |-> PyStr("C"), Quantity |-> PyInt(-1)]),
      PyDict([Product |-> PyStr("A")]),
      PyDict([Product |-> PyList(<<>>), Quantity |-> PyInt(1)]),
      PyDict([Product |-> PyStr("A"), Quantity |-> PyBool(TRUE)]),
      PyStr("x") }

SeqsUpTo(S, n) == UNION { [1..k -> S] : k \in 0..n }

NonListDocs == { EmptyDict, PyInt(5) }

CatDocs == NonListDocs \cup { PyList(s) : s \in SeqsUpTo(CatElems, MaxCat) }
SalesDocs == NonListDocs \cup { PyList(s) : s \in SeqsUpTo(SaleElems, MaxSales) }

\* what open()/json.load() can meet at a path
Missing == [st |-> "missing"]
Unreadable == [st |-> "unreadable"]
Malformed == [st |-> "malformed"]
Parsed(doc) == [st |-> "ok", doc |-> doc]

FileStates(docs) == { Missing, Unreadable, Malformed } \cup { Parsed(d) : d \in docs }

ElapsedValues == { 0, 123 }

Absent == [st |-> "absent"]
Content(lines) == [st |-> "content", lines |-> lines]
StaleReport == Content(<<"stale">>)

----------------------------------------------------------------------------
(* Formatting *)

Digit(d) ==
    CASE d = 0 -> "0" [] d = 1 -> "1" [] d = 2 -> "2" [] d = 3 -> "3"
      [] d = 4 -> "4" [] d = 5 -> "5" [] d = 6 -> "6" [] d = 7 -> "7"
      [] d = 8 -> "8" [] d = 9 -> "9"

RECURSIVE NatStr(_)
NatStr(n) == IF n < 10 THEN Digit(n) ELSE NatStr(n \div 10) \o Digit(n % 10)

Pad3(n) == Digit(n \div 100) \o Digit((n \div 10) % 10) \o Digit(n % 10)

RECURSIVE Grouped(_)
Grouped(n) == IF n < 1000 THEN NatStr(n)
              ELSE Grouped(n \div 1000) \o "," \o Pad3(n % 1000)

\* f"{total_cost:,.2f}" for an integral total
FormatCost(c) == (IF c < 0 THEN "-" ELSE "") \o Grouped(IF c < 0 THEN -c ELSE c) \o ".00"

\* f"{elapsed_time:.2f}" for a time in hundredths of a second
FormatTime(cs) == NatStr(cs \div 100) \o "." \o Digit((cs \div 10) % 10) \o Digit(cs % 10)

TotalLine(c) == "Total Sales Cost: $" \o FormatCost(c)
TimeLine(cs) == "Execution Time: " \o FormatTime(cs) \o " seconds"

----------------------------------------------------------------------------
(* Console lines *)

UsageLine == [k |-> "usage"]
FormatErrorLine == [k |-> "format_error"]
LoadErrorLine(file, cause) == [k |-> "load_error", file |-> file, cause |-> cause]
InvalidEntryLine(item) == [k |-> "invalid_entry", item |-> item]
NotFoundLine(product) == [k |-> "not_found", product |-> product]
InvalidQuantityLine(product) == [k |-> "invalid_quantity", product |-> product]
ReportLine(text) == [k |-> "report", text |-> text]

----------------------------------------------------------------------------
(* load_json_file *)

\* the result of load_json_file(filename) on a path in state f
load_json_file(filename, f) ==
    CASE f.st = "ok" ->
           [value |-> f.doc, out |-> <<>>, raised |-> NoException]
      [] f.st = "missing" ->
           [value |-> EmptyDict,
            out |-> <<LoadErrorLine(filename, "FileNotFoundError")>>,
            raised |-> NoException]
      [] f.st = "malformed" ->
           [value |-> EmptyDict,
            out |-> <<LoadErrorLine(filename, "JSONDecodeError")>>,
            raised |-> NoException]
      [] f.st = "unreadable" ->
           [value |-> Unset, out |-> <<>>, raised |-> "PermissionError"]

----------------------------------------------------------------------------
(* convert_catalogue_to_dict *)

\* an insertion that keeps the first price of a title
DictSetKeepFirst(d, key, v) ==
    [x \in DOMAIN d \cup {key} |-> IF x \in DOMAIN d THEN d[x] ELSE v]

\* catalogue_dict[product] = price
DictSet(d, key, v) == [x \in DOMAIN d \cup {key} |-> IF x = key THEN v ELSE d[x]]

RECURSIVE ConvertFrom(_, _, _, _)
ConvertFrom(cat, k, d, out) ==
    IF k > Len(cat) THEN [dict |-> d, out |-> out, raised |-> NoException]
    ELSE LET item == cat[k] IN
         IF ~HasGet(item)
         THEN [dict |-> d, out |-> out, raised |-> "AttributeError"]
         ELSE LET product == Get(item, "title")
                  price == Get(item, "price")
              IN IF IsStr(product) /\ IsNumber(price)
                 THEN ConvertFrom(cat, k + 1, DictSet(d, product.s, price), out)
                 ELSE ConvertFrom(cat, k + 1, d, Append(out, InvalidEntryLine(item)))

convert_catalogue_to_dict(cat) == ConvertFrom(cat, 1, <<>>, <<>>)

----------------------------------------------------------------------------
(* compute_total_sales *)

\* total_cost = 0.0
InitialTotal == 0

\* product in price_catalogue_dict, for a hashable product
InDict(product, d) == IsStr(product) /\ product.s \in DOMAIN d

\* one iteration of the for loop over sales_record; index is the value of
\* price_catalogue_dict before the iteration
SaleBody(cat, sale, total, index) ==
    IF ~HasGet(sale)
    THEN [total |-> total, index |-> index, out |-> <<>>, raised |-> "AttributeError"]
    ELSE LET product == Get(sale, "Product")
             quantity == Get(sale, "Quantity")
             conv == convert_catalogue_to_dict(cat)
         IN IF conv.raised # NoException
            THEN [total |-> total, index |-> index, out |-> conv.out,
                  raised |-> conv.raised]
            ELSE IF Unhashable(product)
            THEN [total |-> total, index |-> PyDict(conv.dict), out |-> conv.out,
                  raised |-> "TypeError"]
            ELSE IF ~InDict(product, conv.dict)
            THEN [total |-> total, index |-> PyDict(conv.dict),
                  out |-> Append(conv.out, NotFoundLine(product)),
                  raised |-> NoException]
            ELSE IF ~IsNumber(quantity) \/ NumVal(quantity) < 0
            THEN [total |-> total, index |-> PyDict(conv.dict),
                  out |-> Append(conv.out, InvalidQuantityLine(product)),
                  raised |-> NoException]
            ELSE [total |-> total + NumVal(conv.dict[product.s]) * NumVal(quantity),
                  index |-> PyDict(conv.dict),
                  out |-> conv.out,
                  raised |-> NoException]

----------------------------------------------------------------------------
(* main *)

Init ==
    /\ argc \in 1..MaxArgc
    /\ pc = "main"
    /\ catFile = Unset
    /\ salesFile = Unset
    /\ price_catalogue = Unset
    /\ sales_record = Unset
    /\ idx = 0
    /\ price_catalogue_dict = Unset
    /\ total_cost = InitialTotal
    /\ elapsed_time = 0
    /\ console = <<>>
    /\ outFile \in {Absent, StaleReport}
    /\ exitStatus = "running"
    /\ raised = NoException

\* the process ends on an uncaught exception: traceback, status 1
Crash(exc) ==
    /\ raised' = exc
    /\ exitStatus' = 1
    /\ pc' = "exited"

\* len(sys.argv) != 3: usage, sys.exit(1)
Usage ==
    /\ pc = "main"
    /\ argc # 3
    /\ console' = Append(console, UsageLine)
    /\ exitStatus' = 1
    /\ pc' = "exited"
    /\ UNCHANGED <<argc, catFile, salesFile, price_catalogue, sales_record, idx,
                   price_catalogue_dict,
                   total_cost, elapsed_time, outFile, raised>>

\* len(sys.argv) == 3: start_time = time.time()
ArgsOk ==
    /\ pc = "main"
    /\ argc = 3
    /\ pc' = "load_catalogue"
    /\ UNCHANGED <<argc, catFile, salesFile, price_catalogue, sales_record, idx,
                   price_catalogue_dict,
                   total_cost, elapsed_time, console, outFile, exitStatus, raised>>

\* price_catalogue = load_json_file(price_catalogue_file)
LoadCatalogue ==
    /\ pc = "load_catalogue"
    /\ \E f \in FileStates(CatDocs) :
         LET r == load_json_file("catalogue", f) IN
         /\ catFile' = f
         /\ console' = console \o r.out
         /\ IF r.raised # NoException
            THEN /\ Crash(r.raised)
                 /\ UNCHANGED price_catalogue
            ELSE /\ price_catalogue' = r.value
                 /\ pc' = "load_sales"
                 /\ UNCHANGED <<exitStatus, raised>>
    /\ UNCHANGED <<argc, salesFile, sales_record, idx, price_catalogue_dict, total_cost, elapsed_time,
                   outFile>>

\* sales_record = load_json_file(sales_record_file)
LoadSales ==
    /\ pc = "load_sales"
    /\ \E f \in FileStates(SalesDocs) :
         LET r == load_json_file("sales", f) IN
         /\ salesFile' = f
         /\ console' = console \o r.out
         /\ IF r.raised # NoException
            THEN /\ Crash(r.raised)
                 /\ UNCHANGED sales_record
            ELSE /\ sales_record' = r.value
                 /\ pc' = "check_format"
                 /\ UNCHANGED <<exitStatus, raised>>
    /\ UNCHANGED <<argc, catFile, price_catalogue, idx, price_catalogue_dict, total_cost, elapsed_time,
                   outFile>>

\* either loaded value is not a list: format error, sys.exit(1)
FormatError ==
    /\ pc = "check_format"
    /\ ~IsList(price_catalogue) \/ ~IsList(sales_record)
    /\ console' = Append(console, FormatErrorLine)
    /\ exitStatus' = 1
    /\ pc' = "exited"
    /\ UNCHANGED <<argc, catFile, salesFile, price_catalogue, sales_record, idx,
                   price_catalogue_dict,
                   total_cost, elapsed_time, outFile, raised>>

\* both are lists: compute_total_sales is called, total_cost = 0.0
ComputeStart ==
    /\ pc = "check_format"
    /\ IsList(price_catalogue) /\ IsList(sales_record)
    /\ total_cost' = InitialTotal
    /\ idx' = 1
    /\ pc' = "compute"
    /\ UNCHANGED <<argc, catFile, salesFile, price_catalogue, sales_record,
                   price_catalogue_dict, elapsed_time, console, outFile,
                   exitStatus, raised>>

\* one iteration of the loop of compute_total_sales
SaleStep ==
    /\ pc = "compute"
    /\ idx <= Len(sales_record.items)
    /\ LET r == SaleBody(price_catalogue.items, sales_record.items[idx],
                         total_cost, price_catalogue_dict) IN
       /\ console' = console \o r.out
       /\ price_catalogue_dict' = r.index
       /\ IF r.raised # NoException
          THEN /\ Crash(r.raised)
               /\ UNCHANGED <<idx, total_cost>>
          ELSE /\ total_cost' = r.total
               /\ idx' = idx + 1
               /\ UNCHANGED <<pc, exitStatus, raised>>
    /\ UNCHANGED <<argc, catFile, salesFile, price_catalogue, sales_record,
                   elapsed_time, outFile>>

\* return total_cost; elapsed_time = time.time() - start_time
ComputeReturn ==
    /\ pc = "compute"
    /\ idx > Len(sales_record.items)
    /\ elapsed_time' \in ElapsedValues
    /\ pc' = "report"
    /\ UNCHANGED <<argc, catFile, salesFile, price_catalogue, sales_record, idx,
                   price_catalogue_dict,
                   total_cost, console, outFile, exitStatus, raised>>

\* the two print calls of main
PrintReport ==
    /\ pc = "report"
    /\ console' = console \o <<ReportLine(TotalLine(total_cost)),
                               ReportLine(TimeLine(elapsed_time))>>
    /\ pc' = "save"
    /\ UNCHANGED <<argc, catFile, salesFile, price_catalogue, sales_record, idx,
                   price_catalogue_dict,
                   total_cost, elapsed_time, outFile, exitStatus, raised>>

\* save_results writes both lines; main returns, status 0
SaveOk ==
    /\ pc = "save"
    /\ outFile' = Content(<<TotalLine(total_cost), TimeLine(elapsed_time)>>)
    /\ exitStatus' = 0
    /\ pc' = "exited"
    /\ UNCHANGED <<argc, catFile, salesFile, price_catalogue, sales_record, idx,
                   price_catalogue_dict,
                   total_cost, elapsed_time, console, raised>>

\* save_results: open(filename, 'w') raises, the file is left as it was
SaveOpenFails ==
    /\ pc = "save"
    /\ Crash("OSError")
    /\ UNCHANGED <<argc, catFile, salesFile, price_catalogue, sales_record, idx,
                   price_catalogue_dict,
                   total_cost, elapsed_time, console, outFile>>

\* save_results: the file is opened (truncated) and a write or the close raises
SaveWriteFails ==
    /\ pc = "save"
    /\ outFile' \in { Content(<<>>), Content(<<TotalLine(total_cost)>>) }
    /\ Crash("OSError")
    /\ UNCHANGED <<argc, catFile, salesFile, price_catalogue, sales_record, idx,
                   price_catalogue_dict,
                   total_cost, elapsed_time, console>>

Next ==
    \/ Usage
    \/ ArgsOk
    \/ LoadCatalogue
    \/ LoadSales
    \/ FormatError
    \/ ComputeStart
    \/ SaleStep
    \/ ComputeReturn
    \/ PrintReport
    \/ SaveOk
    \/ SaveOpenFails
    \/ SaveWriteFails

Spec == Init /\ [][Next]_vars

----------------------------------------------------------------------------
(* Reference definitions used to state the properties *)

AggregatorErrors == { "AttributeError", "TypeError" }

\* compute_total_sales was called and has ended (returned or raised)
AggregatorEnded == idx > 0 /\ pc \in { "report", "save", "exited" }

\* compute_total_sales was called and returned
AggregatorReturned == AggregatorEnded /\ raised \notin AggregatorErrors

\* a catalogue entry with a string title and a numeric price
WellFormedEntry(e) ==
    /\ e.t = "dict"
    /\ "title" \in DOMAIN e.m /\ e.m.title.t = "str"
    /\ "price" \in DOMAIN e.m /\ e.m.price.t \in { "int", "bool" }

\* a catalogue entry that carries the title ti, well-formed or not
HasTitle(e, ti) ==
    e.t = "dict" /\ "title" \in DOMAIN e.m /\ e.m.title = PyStr(ti)

Last(S) == CHOOSE k \in S : \A j \in S : j <= k

\* the Catalogue Index of the data model: title -> price of the last
\* well-formed entry with that title
CatalogueIndex(cat) ==
    LET valid == { k \in 1..Len(cat) : WellFormedEntry(cat[k]) }
        titles == { cat[k].m.title.s : k \in valid }
    IN [ti \in titles |->
          cat[Last({ k \in valid : cat[k].m.title.s = ti })].m.price]

FieldOf(rec, key) ==
    IF rec.t = "dict" /\ key \in DOMAIN rec.m THEN rec.m[key] ELSE None

KnownProduct(rec, index) ==
    FieldOf(rec, "Product").t = "str" /\ FieldOf(rec, "Product").s \in DOMAIN index

Number(v) == IF v.t = "bool" THEN (IF v.b THEN 1 ELSE 0) ELSE v.n

ValidQuantity(rec) ==
    /\ FieldOf(rec, "Quantity").t \in { "int", "bool" }
    /\ Number(FieldOf(rec, "Quantity")) >= 0

\* the sum, in input order, over the first n sale records that name a known
\* product with a valid quantity
RECURSIVE SumOfSales(_, _, _)
SumOfSales(sales, index, n) ==
    IF n = 0 THEN 0
    ELSE SumOfSales(sales, index, n - 1) +
         ( IF KnownProduct(sales[n], index) /\ ValidQuantity(sales[n])
           THEN Number(index[sales[n].m.Product.s]) * Number(sales[n].m.Quantity)
           ELSE 0 )

\* the sale-level warnings the first n sale records call for
RECURSIVE SaleWarnings(_, _, _)
SaleWarnings(sales, index, n) ==
    IF n = 0 THEN <<>>
    ELSE SaleWarnings(sales, index, n - 1) \o
         ( IF ~KnownProduct(sales[n], index)
           THEN << [k |-> "not_found", product |-> FieldOf(sales[n], "Product")] >>
           ELSE IF ~ValidQuantity(sales[n])
           THEN << [k |-> "invalid_quantity", product |-> FieldOf(sales[n], "Product")] >>
           ELSE <<>> )

IsSaleWarning(line) == line.k \in { "not_found", "invalid_quantity" }
IsWarning(line) == line.k \in { "not_found", "invalid_quantity", "invalid_entry" }
IsReport(line) == line.k = "report"
IsFatalMessage(line) == line.k \in { "usage", "format_error" }

Lines(P(_)) == SelectSeq(console, P)

LoadErrors(file) ==
    SelectSeq(console, LAMBDA l : l.k = "load_error" /\ l.file = file)

\* SalesResults.txt is as it was before the run
ReportFileUntouched == outFile \in { Absent, StaleReport }

----------------------------------------------------------------------------
(* C1 *)

\* C1: whenever compute_total_sales has been called on a catalogue sequence
\* and a sales sequence, it returns, and the total is exactly the sum in
\* input order of price[Product] * Quantity over the records with a known
\* Product and a numeric non-negative Quantity; every other record adds
\* nothing.
C1_ReturnsSumOfValidSales ==
    AggregatorEnded =>
        /\ AggregatorReturned
        /\ total_cost = SumOfSales(sales_record.items,
                                   CatalogueIndex(price_catalogue.items),
                                   Len(sales_record.items))

\* Where no exception is raised the sum is right: during the loop and after
\* the return, the total is the sum over the records processed so far.
TotalIsSumOfProcessedSales ==
    (pc = "compute" \/ AggregatorReturned) =>
        total_cost = SumOfSales(sales_record.items,
                                CatalogueIndex(price_catalogue.items),
                                idx - 1)

----------------------------------------------------------------------------
(* C2 *)

\* C2: the Aggregator and the index construction never raise on a malformed
\* element of the catalogue or of the sales.
C2_AggregatorNeverRaises == raised \notin AggregatorErrors

----------------------------------------------------------------------------
(* C3 *)

\* what C3 requires of one call of load_json_file, once it was made
LoaderContract(file, f, value) ==
    f # Unset =>
        IF f.st = "ok"
        THEN value = f.doc /\ LoadErrors(file) = <<>>
        ELSE /\ value = EmptyDict
             /\ Len(LoadErrors(file)) = 1
             /\ raised # "PermissionError"

\* C3: on every failure to obtain a parsed document (missing, unreadable,
\* malformed) load_json_file prints exactly one line and returns the empty
\* mapping without raising; on success it prints nothing and returns the
\* parsed value.
C3_LoaderReturnsSentinel ==
    /\ LoaderContract("catalogue", catFile, price_catalogue)
    /\ LoaderContract("sales", salesFile, sales_record)

----------------------------------------------------------------------------
(* C4 *)

\* the file was read and was missing, malformed or not a sequence
FailsAsSequence(f) ==
    /\ f # Unset
    /\ \/ f.st \in { "missing", "malformed" }
       \/ f.st = "ok" /\ f.doc.t # "list"

\* C4: a run with a wrong argument count, or with an input that is missing,
\* malformed or not a top-level sequence, prints a usage or format error,
\* exits with status 1, leaves SalesResults.txt alone and never calls the
\* Aggregator.
C4_FatalInputExitsWithError ==
    ( /\ pc = "exited"
      /\ argc # 3 \/ FailsAsSequence(catFile) \/ FailsAsSequence(salesFile) )
    => /\ exitStatus = 1
       /\ Len(Lines(IsFatalMessage)) = 1
       /\ ReportFileUntouched
       /\ idx = 0

\* Where no file is unreadable, the fatal inputs end as C4 says.
FatalInputWithReadableFiles ==
    (catFile # Unreadable /\ salesFile # Unreadable) => C4_FatalInputExitsWithError

----------------------------------------------------------------------------
(* C5 *)

\* the titles carried by more than one catalogue entry
DuplicateTitles(cat) ==
    { ti \in { "A", "B", "C" } :
        Cardinality({ k \in 1..Len(cat) : HasTitle(cat[k], ti) }) > 1 }

\* C5 as stated: once the index is built, every title that occurs in more
\* than one catalogue entry is indexed with the price of the last entry
\* with that title.
C5_LastEntryWins ==
    price_catalogue_dict # Unset =>
        \A ti \in DuplicateTitles(price_catalogue.items) :
            LET cat == price_catalogue.items
                last == Last({ k \in 1..Len(cat) : HasTitle(cat[k], ti) })
            IN /\ ti \in DOMAIN price_catalogue_dict.m
               /\ price_catalogue_dict.m[ti] = FieldOf(cat[last], "price")

\* the index built maps exactly the titles of the well-formed entries, each
\* to the price of the last well-formed entry with that title
IndexIsLastWellFormed ==
    price_catalogue_dict # Unset =>
        price_catalogue_dict.m = CatalogueIndex(price_catalogue.items)

\* a sale that changes the total adds the price of the last well-formed
\* entry with its title, times its quantity
SalePricedWithLastWellFormed ==
    (pc = "compute" /\ total_cost' # total_cost) =>
        LET sale == sales_record.items[idx]
            index == CatalogueIndex(price_catalogue.items)
        IN /\ KnownProduct(sale, index)
           /\ total_cost' = total_cost +
                Number(index[sale.m.Product.s]) * Number(sale.m.Quantity)

\* C5 amended: the index has one price per title, the price of the last
\* well-formed entry (string title, numeric price) with that title, and
\* every accumulated sale of that title is priced with it.
C5_LastWellFormedEntryWins ==
    /\ []IndexIsLastWellFormed
    /\ [][SalePricedWithLastWellFormed]_vars

\* two well-formed entries share a title with different prices, the index
\* was built and a sale of that title was accumulated
C5_Witness ==
    /\ price_catalogue_dict # Unset
    /\ \E j, k \in 1..Len(price_catalogue.items) :
         /\ j < k
         /\ WellFormedEntry(price_catalogue.items[j])
         /\ WellFormedEntry(price_catalogue.items[k])
         /\ price_catalogue.items[j].m.title = price_catalogue.items[k].m.title
         /\ price_catalogue.items[j].m.price # price_catalogue.items[k].m.price
         /\ price_catalogue.items[k].m.title = PyStr("A")
    /\ pc = "report"
    /\ total_cost # 0

----------------------------------------------------------------------------
(* C6 *)

\* C6: the running total of compute_total_sales is never negative, and
\* neither is the total it returns.
C6_TotalNonNegative == total_cost >= 0

----------------------------------------------------------------------------
(* C7 *)

\* the aggregation over an index built once, before the loop
RECURSIVE BuildOnceFrom(_, _, _, _, _)
BuildOnceFrom(sales, index, n, total, out) ==
    IF n > Len(sales) THEN [total |-> total, out |-> out, raised |-> NoException]
    ELSE IF sales[n].t # "dict"
    THEN [total |-> total, out |-> out, raised |-> "AttributeError"]
    ELSE IF FieldOf(sales[n], "Product").t \in { "list", "dict" }
    THEN [total |-> total, out |-> out, raised |-> "TypeError"]
    ELSE IF ~KnownProduct(sales[n], index)
    THEN BuildOnceFrom(sales, index, n + 1, total,
            Append(out, [k |-> "not_found", product |-> FieldOf(sales[n], "Product")]))
    ELSE IF ~ValidQuantity(sales[n])
    THEN BuildOnceFrom(sales, index, n + 1, total,
            Append(out, [k |-> "invalid_quantity", product |-> FieldOf(sales[n], "Product")]))
    ELSE BuildOnceFrom(sales, index, n + 1,
            total + Number(index[sales[n].m.Product.s]) * Number(sales[n].m.Quantity),
            out)

\* the warnings for the malformed entries among the first n catalogue entries
RECURSIVE EntryWarnings(_, _)
EntryWarnings(cat, n) ==
    IF n = 0 THEN <<>>
    ELSE EntryWarnings(cat, n - 1) \o
         ( IF WellFormedEntry(cat[n]) THEN <<>>
           ELSE << [k |-> "invalid_entry", item |-> cat[n]] >> )

BuildOnce(cat, sales) ==
    IF \E k \in 1..Len(cat) : cat[k].t # "dict"
    THEN [total |-> 0,
          out |-> EntryWarnings(cat, Last({ k \in 1..Len(cat) : cat[k].t # "dict" /\
                                              \A j \in 1..(k - 1) : cat[j].t = "dict" }) - 1),
          raised |-> "AttributeError"]
    ELSE BuildOnceFrom(sales, CatalogueIndex(cat), 1, 0, EntryWarnings(cat, Len(cat)))

\* C7: when the aggregation returns, the warnings printed and the total are
\* those of the aggregation that builds the index once before the loop; a
\* catalogue-entry warning is printed once per run.
C7_SameAsBuildOnce ==
    pc = "report" =>
        LET ref == BuildOnce(price_catalogue.items, sales_record.items)
        IN /\ ref.raised = NoException
           /\ Lines(IsWarning) = ref.out
           /\ total_cost = ref.total

----------------------------------------------------------------------------
(* C8 *)

\* C8: a run that ends in a fatal condition (status 1) has produced neither
\* the console report lines nor the file report; a run that exits with
\* status 0 has produced both, with the same two lines.
C8_ReportOnlyWithoutFatal ==
    pc = "exited" =>
        /\ exitStatus = 1 =>
             /\ Lines(IsReport) = <<>>
             /\ ReportFileUntouched
        /\ exitStatus = 0 =>
             /\ Len(Lines(IsReport)) = 2
             /\ outFile = Content(<< Lines(IsReport)[1].text, Lines(IsReport)[2].text >>)

----------------------------------------------------------------------------
(* C9 *)

EmptySalesRun ==
    /\ pc = "exited"
    /\ price_catalogue.t = "list"
    /\ sales_record = PyList(<<>>)

ZeroReport(cs) == << "Total Sales Cost: $0.00", TimeLine(cs) >>

----------------------------------------------------------------------------
(* C10 *)

\* C10: once the aggregation has ended, the sale-level warnings printed are,
\* in the order of the sale records, one "not found" warning for each record
\* whose Product is not in the index (whatever its Quantity), one "invalid
\* quantity" warning for each record with a known Product and an invalid
\* Quantity, and none for an accepted record, whatever the position of the
\* record.
C10_OneWarningPerSkippedSale ==
    AggregatorEnded =>
        Lines(IsSaleWarning) =
            SaleWarnings(sales_record.items,
                         CatalogueIndex(price_catalogue.items),
                         Len(sales_record.items))

\* Where no exception is raised the warnings are right: during the loop and
\* after the return, the sale-level warnings are those of the records
\* processed so far, the unknown-product test first.
ProcessedSalesWarnOnce ==
    (pc = "compute" \/ AggregatorReturned) =>
        Lines(IsSaleWarning) =
            SaleWarnings(sales_record.items,
                         CatalogueIndex(price_catalogue.items),
                         idx - 1)

====
